---- MODULE Spec2Model ----
(***************************************************************************)
(* Session wallet program (programs/session-wallet/src/lib.rs).            *)
(*                                                                         *)
(* One SessionWallet record per session id, stored at the address derived *)
(* from ("session", session_id).  Four instructions: initialize_session,   *)
(* execute_purchase, fund_session, close_session.  Every instruction is    *)
(* one transaction: account validation, handler, token transfer; when any  *)
(* of them fails nothing of the transaction is kept.                       *)
(*                                                                         *)
(* u64 is scaled down to 0..U64Max.                                        *)
(***************************************************************************)
EXTENDS Integers, FiniteSets, Sequences, TLC

\* ------------------------------------------------------------------ bounds
U64Max == 2
MaxTime == 2
FunderFunds == 1

\* The token supply is a u64 itself: the holdings start with U64Max in all.
TreasuryFunds == U64Max - FunderFunds

\* ------------------------------------------------------------- the universe
Sessions == {"s1", "s2"}
Callers == {"alice", "bob"}
Times == 1..MaxTime
Amounts == 0..U64Max
Modulus == U64Max + 1

NoRecord == [exists |-> FALSE]
NoTransfer == [requested |-> FALSE]
NoEvent == [name |-> "none"]
None == 0 - 1

\* find_program_address(["session", session_id]): the canonical bump.
Bump(session_id) == IF session_id = "s1" THEN 255 ELSE 254

\* create_program_address(["session", session_id, bump]): the derived
\* address, which is also the identity the derived signer seeds stand for.
DerivedAddress(session_id, bump) ==
    IF bump # Bump(session_id) THEN "invalid"
    ELSE IF session_id = "s1" THEN "pda_s1" ELSE "pda_s2"

\* Token accounts (holdings) and their owners.
Holdings == {"hA", "hB", "v1", "v2"}
HoldingOwner(h) ==
    CASE h = "hA" -> "alice"
      [] h = "hB" -> "bob"
      [] h = "v1" -> DerivedAddress("s1", Bump("s1"))
      [] h = "v2" -> DerivedAddress("s2", Bump("s2"))

VARIABLES
    wallets,          \* session id -> SessionWallet record or NoRecord
    holdings,         \* holding -> token amount
    clock,            \* last value read from the clock oracle
    net,              \* session id -> sum of the successful fund_session amounts
                      \* minus sum of the successful execute_purchase amounts
    last              \* the last instruction: op, session, caller, error, event

vars == <<wallets, holdings, clock, net, last>>

\* ---------------------------------------------------------- u64 arithmetic
\* Plausible slips of the checked addition: unchecked (wrapping), saturating,
\* and a range test that is off by one.
wrapping_add(a, b) == (a + b) % Modulus
saturating_add(a, b) == IF a + b > U64Max THEN U64Max ELSE a + b
checked_add_off_by_one(a, b) == IF a + b > Modulus THEN None ELSE (a + b) % Modulus

checked_add(a, b) == IF a + b > U64Max THEN None ELSE a + b
checked_sub(a, b) == IF a < b THEN None ELSE a - b
wrapping_sub(a, b) == (a - b) % Modulus

\* ------------------------------------------------- custody transfer service
\* token::transfer(from, to, authority, amount): the authority must own the
\* source, the source must hold the amount, the destination must not
\* overflow; a transfer onto itself changes nothing.
CanTransfer(h, x) ==
    /\ HoldingOwner(x.from) = x.authority
    /\ h[x.from] >= x.amount
    /\ (x.to # x.from => h[x.to] + x.amount <= U64Max)

DoTransfer(h, x) ==
    IF x.to = x.from THEN h
    ELSE [h EXCEPT ![x.from] = h[x.from] - x.amount,
                   ![x.to] = h[x.to] + x.amount]

TransferRequest(from, to, authority, amount) ==
    [requested |-> TRUE, from |-> from, to |-> to,
     authority |-> authority, amount |-> amount]

\* ------------------------------------------------------------- the handlers
\* A handler result: err is the error raised before the transfer call,
\* wallet the record as the handler leaves it, xfer the transfer it
\* requests, late the error raised after the transfer call, event the
\* event it emits.
Fail(w, err) ==
    [err |-> err, wallet |-> w, xfer |-> NoTransfer, late |-> "Ok", event |-> NoEvent]

initialize_session(caller, session_id, initial_funding, now, treasury, session_holding) ==
    LET w == [exists |-> TRUE,
              authority |-> caller,
              session_id |-> session_id,
              created_at |-> now,
              last_activity |-> now,
              initial_balance |-> initial_funding,
              current_balance |-> initial_funding,
              is_active |-> TRUE,
              bump |-> Bump(session_id)]
    IN  [err |-> "Ok",
         wallet |-> w,
         xfer |-> TransferRequest(treasury, session_holding, caller, initial_funding),
         late |-> "Ok",
         event |-> [name |-> "SessionCreated", session_id |-> w.session_id,
                    pda |-> DerivedAddress(session_id, w.bump),
                    initial_funding |-> initial_funding, timestamp |-> now]]

\* A plausible slip: the balance test left out and the subtraction unchecked.
execute_purchase_unchecked(w, amount, now, session_holding, provider) ==
    IF ~w.is_active THEN Fail(w, "SessionClosed")
    ELSE
      LET w2 == [w EXCEPT !.current_balance = wrapping_sub(w.current_balance, amount),
                          !.last_activity = now]
      IN  [err |-> "Ok",
           wallet |-> w2,
           xfer |-> TransferRequest(session_holding, provider,
                                    DerivedAddress(w2.session_id, w2.bump), amount),
           late |-> "Ok",
           event |-> [name |-> "PurchaseExecuted", session_id |-> w2.session_id,
                      amount |-> amount, remaining_balance |-> w2.current_balance,
                      timestamp |-> now]]

\* A plausible slip: > for >= in the balance test.
execute_purchase_strict(w, amount, now, session_holding, provider) ==
    IF ~w.is_active THEN Fail(w, "SessionClosed")
    ELSE IF ~(w.current_balance > amount) THEN Fail(w, "InsufficientBalance")
    ELSE
      LET w2 == [w EXCEPT !.current_balance = checked_sub(w.current_balance, amount),
                          !.last_activity = now]
      IN  [err |-> "Ok",
           wallet |-> w2,
           xfer |-> TransferRequest(session_holding, provider,
                                    DerivedAddress(w2.session_id, w2.bump), amount),
           late |-> "Ok",
           event |-> [name |-> "PurchaseExecuted", session_id |-> w2.session_id,
                      amount |-> amount, remaining_balance |-> w2.current_balance,
                      timestamp |-> now]]

\* A plausible slip: the transfer signed for whatever owns the source
\* holding instead of with the record's own seeds.
execute_purchase_any_signer(w, amount, now, session_holding, provider) ==
    IF ~w.is_active THEN Fail(w, "SessionClosed")
    ELSE IF ~(w.current_balance >= amount) THEN Fail(w, "InsufficientBalance")
    ELSE
      LET w2 == [w EXCEPT !.current_balance = checked_sub(w.current_balance, amount),
                          !.last_activity = now]
      IN  [err |-> "Ok",
           wallet |-> w2,
           xfer |-> TransferRequest(session_holding, provider,
                                    HoldingOwner(session_holding), amount),
           late |-> "Ok",
           event |-> [name |-> "PurchaseExecuted", session_id |-> w2.session_id,
                      amount |-> amount, remaining_balance |-> w2.current_balance,
                      timestamp |-> now]]

execute_purchase(w, amount, now, session_holding, provider) ==
    IF ~w.is_active THEN Fail(w, "SessionClosed")
    ELSE IF ~(w.current_balance >= amount) THEN Fail(w, "InsufficientBalance")
    ELSE IF checked_sub(w.current_balance, amount) = None THEN Fail(w, "Overflow")
    ELSE
      LET w2 == [w EXCEPT !.current_balance = checked_sub(w.current_balance, amount),
                          !.last_activity = now]
      IN  [err |-> "Ok",
           wallet |-> w2,
           xfer |-> TransferRequest(session_holding, provider,
                                    DerivedAddress(w2.session_id, w2.bump), amount),
           late |-> "Ok",
           event |-> [name |-> "PurchaseExecuted", session_id |-> w2.session_id,
                      amount |-> amount, remaining_balance |-> w2.current_balance,
                      timestamp |-> now]]

\* A plausible slip: the timestamp written to created_at instead of
\* last_activity.
FundOkCreatedAt(w, funder, amount, now, funder_holding, session_holding) ==
    LET w2 == [w EXCEPT !.current_balance = checked_add(w.current_balance, amount),
                        !.created_at = now]
    IN  [err |-> "Ok",
         wallet |-> w2,
         xfer |-> TransferRequest(funder_holding, session_holding, funder, amount),
         late |-> "Ok",
         event |-> [name |-> "FundsAdded", session_id |-> w2.session_id,
                    amount |-> amount, new_balance |-> w2.current_balance,
                    timestamp |-> now]]

FundOk(w, funder, amount, now, funder_holding, session_holding) ==
    LET w2 == [w EXCEPT !.current_balance = checked_add(w.current_balance, amount),
                        !.last_activity = now]
    IN  [err |-> "Ok",
         wallet |-> w2,
         xfer |-> TransferRequest(funder_holding, session_holding, funder, amount),
         late |-> "Ok",
         event |-> [name |-> "FundsAdded", session_id |-> w2.session_id,
                    amount |-> amount, new_balance |-> w2.current_balance,
                    timestamp |-> now]]

\* A plausible slip: the is_active test left out.
fund_session_no_active_test(w, funder, amount, now, funder_holding, session_holding) ==
    IF checked_add(w.current_balance, amount) = None THEN Fail(w, "Overflow")
    ELSE FundOk(w, funder, amount, now, funder_holding, session_holding)

\* A plausible slip: funding restricted to the authority.
fund_session_authority_only(w, funder, amount, now, funder_holding, session_holding) ==
    IF ~w.is_active THEN Fail(w, "SessionClosed")
    ELSE IF funder # w.authority THEN Fail(w, "Unauthorized")
    ELSE IF checked_add(w.current_balance, amount) = None THEN Fail(w, "Overflow")
    ELSE FundOk(w, funder, amount, now, funder_holding, session_holding)

fund_session(w, funder, amount, now, funder_holding, session_holding) ==
    IF ~w.is_active THEN Fail(w, "SessionClosed")
    ELSE IF checked_add(w.current_balance, amount) = None THEN Fail(w, "Overflow")
    ELSE FundOk(w, funder, amount, now, funder_holding, session_holding)

\* total_spent: initial_balance - remaining_balance, an unchecked u64
\* subtraction: it panics in a build with overflow checks and wraps in one
\* without.
total_spent(w, remaining_balance) ==
    wrapping_sub(w.initial_balance, remaining_balance)

\* A plausible slip: the refund taken from initial_balance instead of
\* current_balance.
close_session_refund_initial(w, checks, now, session_holding, treasury) ==
    IF ~w.is_active THEN Fail(w, "SessionClosed")
    ELSE
      LET remaining_balance == w.initial_balance
          w2 == [w EXCEPT !.is_active = FALSE, !.current_balance = 0]
      IN  [err |-> "Ok",
           wallet |-> w2,
           xfer |-> IF remaining_balance > 0
                    THEN TransferRequest(session_holding, treasury,
                                         DerivedAddress(w.session_id, w.bump),
                                         remaining_balance)
                    ELSE NoTransfer,
           late |-> "Ok",
           event |-> [name |-> "SessionClosed", session_id |-> w2.session_id,
                      refunded_amount |-> remaining_balance,
                      total_spent |-> total_spent(w2, remaining_balance),
                      timestamp |-> now]]

close_session(w, checks, now, session_holding, treasury) ==
    IF ~w.is_active THEN Fail(w, "SessionClosed")
    ELSE
      LET remaining_balance == w.current_balance
          w2 == [w EXCEPT !.is_active = FALSE, !.current_balance = 0]
      IN  [err |-> "Ok",
           wallet |-> w2,
           xfer |-> IF remaining_balance > 0
                    THEN TransferRequest(session_holding, treasury,
                                         DerivedAddress(w.session_id, w.bump),
                                         remaining_balance)
                    ELSE NoTransfer,
           late |-> IF checks /\ w.initial_balance < remaining_balance
                    THEN "ArithmeticPanic" ELSE "Ok",
           event |-> [name |-> "SessionClosed", session_id |-> w2.session_id,
                      refunded_amount |-> remaining_balance,
                      total_spent |-> total_spent(w2, remaining_balance),
                      timestamp |-> now]]

\* --------------------------------------------------------- the transaction
\* The error a transaction ends with: the handler's error, else the
\* transfer's failure, else an error raised after the transfer.
Outcome(r, h) ==
    IF r.err # "Ok" THEN r.err
    ELSE IF r.xfer.requested /\ ~CanTransfer(h, r.xfer) THEN "TransferFailed"
    ELSE r.late

\* A plausible slip: the transfer's result dropped instead of propagated.
CommittedDespiteTransfer(res) == res \in {"Ok", "TransferFailed"}

\* What a transaction leaves behind: everything the handler did when it
\* ended Ok, nothing otherwise.
Committed(res) == res = "Ok"

Requested(r, res) ==
    res \in {"Ok", "TransferFailed", "ArithmeticPanic"} /\ r.xfer.requested

\* A plausible slip: the record address derived from the tag alone, without
\* the session_id, so that all sessions share one record.
TransactSharedRecord(op, s, caller, amount, r, res) ==
    /\ last' = [op |-> op, session |-> s, caller |-> caller, amount |-> amount,
                err |-> res, requested |-> Requested(r, res),
                event |-> IF Committed(res) THEN r.event ELSE NoEvent]
    /\ IF Committed(res)
       THEN /\ wallets' = [t \in Sessions |-> r.wallet]
            /\ holdings' = IF r.xfer.requested THEN DoTransfer(holdings, r.xfer)
                           ELSE holdings
       ELSE UNCHANGED <<wallets, holdings>>
    /\ UNCHANGED clock

Transact(op, s, caller, amount, r, res) ==
    /\ last' = [op |-> op, session |-> s, caller |-> caller, amount |-> amount,
                err |-> res, requested |-> Requested(r, res),
                event |-> IF Committed(res) THEN r.event ELSE NoEvent]
    /\ IF Committed(res)
       THEN /\ wallets' = [wallets EXCEPT ![s] = r.wallet]
            /\ holdings' = IF r.xfer.requested THEN DoTransfer(holdings, r.xfer)
                           ELSE holdings
       ELSE UNCHANGED <<wallets, holdings>>
    /\ UNCHANGED clock

\* Account validation of the instructions on an existing record: the record
\* must exist; close_session also has has_one = authority.
LoadError(s) == IF wallets[s].exists THEN "Ok" ELSE "NotFound"

\* A plausible slip: the ownership check left out.
HasOneAuthorityAny(w, caller) == TRUE

HasOneAuthority(w, caller) == w.authority = caller

\* A plausible slip: init_if_needed-like creation that only refuses a live
\* record.
InitErrorIfNeeded(s) ==
    IF wallets[s].exists /\ wallets[s].is_active THEN "AddressOccupied" ELSE "Ok"

\* A plausible slip: no creation check at all (a plain mutable account).
InitErrorNever(s) == "Ok"

\* init: creating the record fails when the derived address is occupied.
InitError(s) == IF wallets[s].exists THEN "AddressOccupied" ELSE "Ok"

\* Account validation of execute_purchase: the record must exist; no
\* account of the instruction is a Signer and none is tied to the authority.
\* A plausible slip first: has_one = authority as in close_session.
ExecutePurchaseAccountsHasOne(s, caller) ==
    IF LoadError(s) # "Ok" THEN LoadError(s)
    ELSE IF ~HasOneAuthority(wallets[s], caller) THEN "Unauthorized"
    ELSE "Ok"

ExecutePurchaseAccounts(s, caller) == LoadError(s)

\* ------------------------------------------------------------- the actions
InitializeSession(s, caller, initial_funding, treasury, session_holding) ==
    LET now == clock
        r == initialize_session(caller, s, initial_funding, now, treasury, session_holding)
        res == IF InitError(s) # "Ok" THEN InitError(s) ELSE Outcome(r, holdings)
    IN  /\ Transact("initialize", s, caller, initial_funding, r, res)
        /\ UNCHANGED net

ExecutePurchase(s, caller, amount, session_holding, provider) ==
    LET now == clock
        r == execute_purchase(wallets[s], amount, now, session_holding, provider)
        res == IF ExecutePurchaseAccounts(s, caller) # "Ok"
               THEN ExecutePurchaseAccounts(s, caller)
               ELSE Outcome(r, holdings)
    IN  /\ Transact("purchase", s, caller, amount, r, res)
        /\ net' = IF Committed(res) THEN [net EXCEPT ![s] = net[s] - amount] ELSE net

FundSession(s, funder, amount, funder_holding, session_holding) ==
    LET now == clock
        r == fund_session(wallets[s], funder, amount, now, funder_holding, session_holding)
        res == IF LoadError(s) # "Ok" THEN LoadError(s) ELSE Outcome(r, holdings)
    IN  /\ Transact("fund", s, funder, amount, r, res)
        /\ net' = IF Committed(res) THEN [net EXCEPT ![s] = net[s] + amount] ELSE net

CloseSession(s, caller, checks, session_holding, treasury) ==
    LET now == clock
        r == close_session(wallets[s], checks, now, session_holding, treasury)
        res == IF LoadError(s) # "Ok" THEN LoadError(s)
               ELSE IF ~HasOneAuthority(wallets[s], caller) THEN "Unauthorized"
               ELSE Outcome(r, holdings)
    IN  /\ Transact("close", s, caller, 0, r, res)
        /\ UNCHANGED net

\* ------------------------------------------------------- the specification
InitHoldings ==
    [h \in Holdings |-> CASE h = "hA" -> TreasuryFunds
                          [] h = "hB" -> FunderFunds
                          [] OTHER -> 0]

Init ==
    /\ wallets = [s \in Sessions |-> NoRecord]
    /\ holdings = InitHoldings
    /\ clock = 1
    /\ net = [s \in Sessions |-> 0]
    /\ last = [op |-> "none", session |-> "s1", caller |-> "alice", amount |-> 0,
               err |-> "Ok", requested |-> FALSE, event |-> NoEvent]

\* The clock oracle moves on between transactions.
Tick ==
    /\ clock < MaxTime
    /\ clock' = clock + 1
    /\ UNCHANGED <<wallets, holdings, net, last>>

\* The holdings a caller signs for.
UserHoldings == {"hA", "hB"}

NextOver(SS, HH) ==
    \E s \in SS, caller \in Callers :
       \/ \E amount \in Amounts, from \in UserHoldings, to \in HH :
             InitializeSession(s, caller, amount, from, to)
       \/ \E amount \in Amounts, from \in HH, to \in HH :
             ExecutePurchase(s, caller, amount, from, to)
       \/ \E amount \in Amounts, from \in UserHoldings, to \in HH :
             FundSession(s, caller, amount, from, to)
       \/ \E checks \in BOOLEAN, from \in HH, to \in HH :
             CloseSession(s, caller, checks, from, to)

Next == NextOver({"s1"}, {"hA", "hB", "v1"})

Spec == Init /\ [][Next]_vars

\* The instructions on the sessions SS, signed by callers CC for amounts AA,
\* paid from the holdings UU, over the holdings HH.
NextOn(SS, CC, AA, UU, HH) ==
    \E s \in SS, caller \in CC :
       \/ \E amount \in AA, from \in UU, to \in HH :
             InitializeSession(s, caller, amount, from, to)
       \/ \E amount \in AA, from \in HH, to \in HH :
             ExecutePurchase(s, caller, amount, from, to)
       \/ \E amount \in AA, from \in UU, to \in HH :
             FundSession(s, caller, amount, from, to)
       \/ \E checks \in BOOLEAN, from \in HH, to \in HH :
             CloseSession(s, caller, checks, from, to)

\* With the clock moving: one session, one payer.
NextClock == Tick \/ NextOn({"s1"}, Callers, 0..1, {"hA"}, {"hA", "v1"})

SpecClock == Init /\ [][NextClock]_vars

\* Two sessions side by side, one caller.
NextTwo == NextOn(Sessions, {"alice"}, 0..1, {"hA"}, {"hA", "v1", "v2"})

SpecTwo == Init /\ [][NextTwo]_vars

\* ------------------------------------------------------------ the claims
Active(s) == wallets[s].exists /\ wallets[s].is_active
Closed(s) == wallets[s].exists /\ ~wallets[s].is_active

\* The step is a transaction of instruction op on session s; last' holds
\* its caller, amount and error, the unprimed variables the state before.
Called(op, s) == last'.op = op /\ last'.session = s /\ clock' = clock

\* The last transaction was op on s and ended with err.
Ended(op, s, err) == last.op = op /\ last.session = s /\ last.err = err

\* C1: while a session is active, current_balance equals initial_balance
\* plus the successfully funded amounts minus the successfully purchased
\* amounts.
C1_Conservation ==
    \A s \in Sessions :
        Active(s) =>
            wallets[s].current_balance = wallets[s].initial_balance + net[s]

C1_Witness ==
    /\ Ended("purchase", "s1", "Ok")
    /\ last.amount > 0
    /\ Active("s1")
    /\ net["s1"] > 0

\* C2: the total of the successful purchases never exceeds initial_funding
\* plus the total of the successful top-ups, closed or not.
C2_SpendingBounded ==
    \A s \in Sessions :
        wallets[s].exists => 0 - net[s] <= wallets[s].initial_balance

C2_Witness ==
    /\ Ended("purchase", "s1", "Ok")
    /\ last.amount > 0
    /\ net["s1"] < 0
    /\ wallets["s1"].initial_balance + net["s1"] = 0

\* C3: every stored current_balance lies in 0..U64Max and is the true sum or
\* difference of the step that stored it, never one reduced modulo 2^64.
C3_BalanceRange ==
    [][\A s \in Sessions :
          wallets'[s].exists =>
            /\ wallets'[s].current_balance \in 0..U64Max
            /\ wallets[s].exists =>
                 wallets'[s].current_balance =
                   IF Called("fund", s) /\ last'.err = "Ok"
                     THEN wallets[s].current_balance + last'.amount
                   ELSE IF Called("purchase", s) /\ last'.err = "Ok"
                     THEN wallets[s].current_balance - last'.amount
                   ELSE IF Called("close", s) /\ last'.err = "Ok"
                     THEN 0
                   ELSE wallets[s].current_balance]_vars

C3_Witness ==
    /\ Ended("fund", "s1", "Ok")
    /\ last.amount > 0
    /\ wallets["s1"].current_balance = U64Max

\* C4 as stated: on a closed session every fund_session, execute_purchase
\* and close_session, by any caller, fails with SessionClosed and the balance
\* stays 0.
C4_Original ==
    [][\A s \in Sessions :
          (Closed(s) /\ \E op \in {"fund", "purchase", "close"} : Called(op, s)) =>
            /\ last'.err = "SessionClosed"
            /\ wallets'[s].current_balance = 0]_vars

\* C4 as amended: on a closed session every fund_session and
\* execute_purchase, by any caller, and every close_session by the stored
\* authority fails with SessionClosed; close_session by anybody else fails
\* with Unauthorized; the record stays closed with balance 0.
C4_TerminalIdempotence ==
    [][\A s \in Sessions :
          (Closed(s) /\ \E op \in {"fund", "purchase", "close"} : Called(op, s)) =>
            /\ last'.err =
                 IF Called("close", s) /\ last'.caller # wallets[s].authority
                 THEN "Unauthorized" ELSE "SessionClosed"
            /\ ~last'.requested
            /\ wallets'[s] = wallets[s]
            /\ wallets'[s].current_balance = 0]_vars

C4_Witness ==
    /\ Closed("s1")
    /\ Ended("close", "s1", "SessionClosed")
    /\ last.caller = wallets["s1"].authority
    /\ wallets["s1"].current_balance = 0

\* C5: a closed record stays closed with balance 0 through every step,
\* initialize_session on its session_id included.
C5_ClosedIsTerminal ==
    [][\A s \in Sessions :
          Closed(s) =>
            /\ wallets[s].current_balance = 0
            /\ wallets'[s].exists
            /\ ~wallets'[s].is_active
            /\ wallets'[s].current_balance = 0]_vars

C5_Witness ==
    /\ Closed("s1")
    /\ Ended("initialize", "s1", "AddressOccupied")
    /\ wallets["s1"].current_balance = 0

\* C6: close_session by another identity than the stored authority fails
\* with Unauthorized and changes neither the record nor any holding.
C6_CloseUnauthorized ==
    [][\A s \in Sessions :
          (Called("close", s) /\ wallets[s].exists
             /\ last'.caller # wallets[s].authority) =>
            /\ last'.err = "Unauthorized"
            /\ ~last'.requested
            /\ UNCHANGED <<wallets, holdings>>]_vars

C6_Witness ==
    /\ Ended("close", "s1", "Unauthorized")
    /\ Active("s1")
    /\ last.caller # wallets["s1"].authority
    /\ wallets["s1"].current_balance > 0

\* C7: fund_session on an active session, by any funder, with any amount
\* that keeps current_balance in range and a transfer that succeeds, ends Ok
\* and adds exactly amount to current_balance.
C7_FundAnyCaller ==
    [][\A s \in Sessions :
          (Called("fund", s) /\ Active(s)) =>
            LET funder == last'.caller
                amount == last'.amount
            IN  \/ /\ last'.err = "Ok"
                   /\ wallets'[s].current_balance = wallets[s].current_balance + amount
                \/ \A from \in Holdings, to \in Holdings :
                      ~ ( /\ wallets[s].current_balance + amount <= U64Max
                          /\ CanTransfer(holdings,
                                TransferRequest(from, to, funder, amount))
                          /\ FundSession(s, funder, amount, from, to) )]_vars

C7_Witness ==
    /\ Ended("fund", "s1", "Ok")
    /\ last.caller # wallets["s1"].authority
    /\ last.amount > 0

\* C8: fund_session on an active session with current_balance + amount
\* above U64Max fails with Overflow, requests no transfer and changes
\* neither the record nor any holding.
C8_FundOverflow ==
    [][\A s \in Sessions :
          (Called("fund", s) /\ Active(s)
             /\ wallets[s].current_balance + last'.amount > U64Max) =>
            /\ last'.err = "Overflow"
            /\ ~last'.requested
            /\ UNCHANGED <<wallets, holdings>>]_vars

C8_Witness ==
    /\ Ended("fund", "s1", "Overflow")
    /\ Active("s1")
    /\ wallets["s1"].current_balance + last.amount > U64Max
    /\ wallets["s1"].current_balance < U64Max

\* C9: execute_purchase on an active session with amount above
\* current_balance fails with InsufficientBalance, without a transfer or a
\* change; with amount up to current_balance and a transfer that succeeds
\* it ends Ok and takes exactly amount from current_balance.
C9_Purchase ==
    [][\A s \in Sessions :
          (Called("purchase", s) /\ Active(s)) =>
            IF last'.amount > wallets[s].current_balance
            THEN /\ last'.err = "InsufficientBalance"
                 /\ ~last'.requested
                 /\ UNCHANGED <<wallets, holdings>>
            ELSE \/ /\ last'.err = "Ok"
                    /\ wallets'[s].current_balance =
                         wallets[s].current_balance - last'.amount
                 \/ \A from \in Holdings, to \in Holdings :
                       ~ ( /\ CanTransfer(holdings,
                                TransferRequest(from, to,
                                  DerivedAddress(s, Bump(s)), last'.amount))
                           /\ ExecutePurchase(s, last'.caller, last'.amount,
                                              from, to) )]_vars

C9_Witness ==
    /\ Ended("purchase", "s1", "InsufficientBalance")
    /\ Active("s1")
    /\ wallets["s1"].current_balance > 0
    /\ last.amount > wallets["s1"].current_balance

\* C10 as stated: close_session by the stored authority on an active
\* session, with the transfer succeeding, ends Ok for every current_balance:
\* it moves current_balance to the treasury holding and leaves the record
\* closed with balance 0.
C10_CloseSucceeds ==
    [][\A s \in Sessions :
          (Called("close", s) /\ Active(s)
             /\ last'.caller = wallets[s].authority) =>
            \A checks \in BOOLEAN, from \in Holdings, to \in Holdings :
              LET remaining == wallets[s].current_balance
                  x == TransferRequest(from, to, DerivedAddress(s, Bump(s)), remaining)
              IN  ( /\ (remaining > 0 => CanTransfer(holdings, x))
                    /\ CloseSession(s, last'.caller, checks, from, to) )
                  => /\ last'.err = "Ok"
                     /\ last'.requested = (remaining > 0)
                     /\ holdings' = IF remaining > 0 THEN DoTransfer(holdings, x)
                                    ELSE holdings
                     /\ wallets'[s].current_balance = 0
                     /\ ~wallets'[s].is_active]_vars

\* The transfer an instruction on s asks for, given the holdings it was
\* passed: its authority and amount are fixed by the instruction.
RequestOf(op, s, caller, amount, from, to) ==
    IF op \in {"initialize", "fund"}
    THEN TransferRequest(from, to, caller, amount)
    ELSE TransferRequest(from, to, DerivedAddress(s, Bump(s)),
                         IF op = "close" THEN wallets[s].current_balance ELSE amount)

\* C11 as stated: every successful close_session emits refunded_amount =
\* the balance before the close and total_spent = initial_balance -
\* refunded_amount as a true, non-negative difference.
C11_TotalSpentChecked ==
    [][\A s \in Sessions :
          (Called("close", s) /\ last'.err = "Ok") =>
            /\ last'.event.name = "SessionClosed"
            /\ last'.event.refunded_amount = wallets[s].current_balance
            /\ last'.event.total_spent =
                 wallets[s].initial_balance - wallets[s].current_balance
            /\ last'.event.total_spent >= 0]_vars

\* C12: a transaction whose transfer fails keeps nothing: record and
\* holdings are as before and no event is emitted; and a transaction that
\* requested a transfer and ended Ok carried out a transfer the custody
\* service accepts.
C12_Atomic ==
    [][\A s \in Sessions :
          \A op \in {"initialize", "fund", "purchase", "close"} :
            Called(op, s) =>
              /\ last'.err = "TransferFailed" =>
                   /\ UNCHANGED <<wallets, holdings, net>>
                   /\ last'.event = NoEvent
              /\ (last'.err = "Ok" /\ last'.requested) =>
                   \E from \in Holdings, to \in Holdings :
                     LET x == RequestOf(op, s, last'.caller, last'.amount, from, to)
                     IN  /\ CanTransfer(holdings, x)
                         /\ holdings' = DoTransfer(holdings, x)]_vars

C12_Witness ==
    /\ Ended("fund", "s1", "TransferFailed")
    /\ Active("s1")
    /\ last.amount > 0
    /\ last.event = NoEvent
    /\ wallets["s1"].current_balance + last.amount <= U64Max

\* C13: initialize_session on an occupied address, live or closed, fails
\* with AddressOccupied and changes neither the record nor any holding.
C13_InitOccupied ==
    [][\A s \in Sessions :
          (Called("initialize", s) /\ wallets[s].exists) =>
            /\ last'.err = "AddressOccupied"
            /\ ~last'.requested
            /\ UNCHANGED <<wallets, holdings>>]_vars

C13_Witness ==
    /\ Ended("initialize", "s1", "AddressOccupied")
    /\ Active("s1")
    /\ last.caller # wallets["s1"].authority
    /\ wallets["s1"].current_balance > 0

\* C14: at every successful close_session the refunded amount plus the
\* successful purchases equals initial_funding plus the successful top-ups,
\* and the refunded amount is what the transfer moved.
C14_Reconciliation ==
    [][\A s \in Sessions :
          (Called("close", s) /\ last'.err = "Ok") =>
            LET refunded == last'.event.refunded_amount
            IN  /\ refunded - net[s] = wallets[s].initial_balance
                /\ last'.requested = (refunded > 0)
                /\ \E from \in Holdings, to \in Holdings :
                     holdings' =
                       DoTransfer(holdings,
                         TransferRequest(from, to, DerivedAddress(s, Bump(s)),
                                         refunded))]_vars

C14_Witness ==
    /\ Ended("close", "s1", "Ok")
    /\ last.event.refunded_amount > 0
    /\ wallets["s1"].initial_balance > 0
    /\ net["s1"] # 0

\* C15: the transfer that execute_purchase or close_session on session s
\* requests is signed with the seeds of s's own stored session_id and bump,
\* so a step on s takes value only out of a holding owned by that derived
\* address (or, for initialize_session and fund_session, by the caller) and
\* never out of the holding owned by the derived address of another session.
C15_ScopedAuthority ==
    [][\A s \in Sessions :
          (last'.session = s /\ clock' = clock) =>
            \A h \in Holdings :
              /\ holdings'[h] < holdings[h] =>
                   HoldingOwner(h) =
                     IF last'.op \in {"purchase", "close"}
                     THEN DerivedAddress(wallets[s].session_id, wallets[s].bump)
                     ELSE last'.caller
              /\ \A t \in Sessions \ {s} :
                   HoldingOwner(h) = DerivedAddress(t, Bump(t)) =>
                     holdings'[h] >= holdings[h]]_vars

\* A purchase on s1 that passed its balance test and failed in the transfer
\* while s1's own holding was empty and s2's held value.
C15_Witness ==
    /\ Ended("purchase", "s1", "TransferFailed")
    /\ last.amount > 0
    /\ Active("s1") /\ Active("s2")
    /\ wallets["s1"].current_balance >= last.amount
    /\ holdings["v1"] = 0
    /\ holdings["v2"] > 0

\* C16: every successful fund_session, execute_purchase and close_session
\* leaves last_activity equal to the clock value read during the call.
C16_LastActivity ==
    [][\A s \in Sessions :
          \A op \in {"fund", "purchase", "close"} :
            (Called(op, s) /\ last'.err = "Ok") =>
              wallets'[s].last_activity = clock]_vars

\* C17: initialize_session sets authority, session_id, initial_balance,
\* created_at and bump, and no later step, successful or failed, changes
\* them or removes the record.
C17_ImmutableFields ==
    [][\A s \in Sessions :
          /\ (Called("initialize", s) /\ last'.err = "Ok") =>
                /\ wallets'[s].authority = last'.caller
                /\ wallets'[s].session_id = s
                /\ wallets'[s].initial_balance = last'.amount
                /\ wallets'[s].created_at = clock
                /\ wallets'[s].bump = Bump(s)
          /\ wallets[s].exists =>
                /\ wallets'[s].exists
                /\ wallets'[s].authority = wallets[s].authority
                /\ wallets'[s].session_id = wallets[s].session_id
                /\ wallets'[s].initial_balance = wallets[s].initial_balance
                /\ wallets'[s].created_at = wallets[s].created_at
                /\ wallets'[s].bump = wallets[s].bump]_vars

\* A top-up made after the clock moved on from the creation.
C17_Witness ==
    /\ Ended("fund", "s1", "Ok")
    /\ last.amount > 0
    /\ wallets["s1"].last_activity > wallets["s1"].created_at
    /\ wallets["s1"].current_balance > wallets["s1"].initial_balance

\* C18: a step of any instruction on session s, successful or failed, leaves
\* the record of every other session exactly as it was.
C18_Independence ==
    [][\A s \in Sessions :
          (last'.session = s /\ clock' = clock) =>
            \A t \in Sessions \ {s} : wallets'[t] = wallets[t]]_vars

\* A purchase on s1 while s2 is active with a different balance.
C18_Witness ==
    /\ Ended("purchase", "s1", "Ok")
    /\ last.amount > 0
    /\ Active("s1") /\ Active("s2")
    /\ wallets["s2"].current_balance > wallets["s1"].current_balance

\* The holding owned by the derived address of session s.
SessionHolding(s) ==
    CHOOSE h \in Holdings : HoldingOwner(h) = DerivedAddress(s, Bump(s))

\* C19: whatever holdings the callers pass as the session holding, the
\* holding owned by a session's derived address holds exactly the record's
\* current_balance.
C19_CustodyMatches ==
    \A s \in Sessions :
        wallets[s].exists =>
            holdings[SessionHolding(s)] = wallets[s].current_balance

\* The step is what execute_purchase on s by caller, for the amount of the
\* step, from and to the given holdings, leaves behind.
PurchaseBy(s, caller, from, to) ==
    LET r == execute_purchase(wallets[s], last'.amount, clock, from, to)
        res == IF ExecutePurchaseAccounts(s, caller) # "Ok"
               THEN ExecutePurchaseAccounts(s, caller)
               ELSE Outcome(r, holdings)
    IN  /\ last'.err = res
        /\ last'.requested = Requested(r, res)
        /\ last'.event = IF Committed(res) THEN r.event ELSE NoEvent
        /\ wallets' = IF Committed(res) THEN [wallets EXCEPT ![s] = r.wallet]
                      ELSE wallets
        /\ holdings' = IF Committed(res) /\ r.xfer.requested
                       THEN DoTransfer(holdings, r.xfer) ELSE holdings

\* C20: the error, the event, the record and the holdings an
\* execute_purchase leaves are the same whichever caller issues it with the
\* same amount and holdings; on an active session any caller gets past the
\* checks with any amount up to current_balance.
C20_CallerIndependent ==
    [][\A s \in Sessions :
          Called("purchase", s) =>
            /\ \E from \in Holdings, to \in Holdings :
                  \A caller \in Callers : PurchaseBy(s, caller, from, to)
            /\ (Active(s) /\ last'.amount <= wallets[s].current_balance) =>
                  last'.err \in {"Ok", "TransferFailed"}]_vars

\* A purchase by a caller who is not the authority went through.
C20_Witness ==
    /\ Ended("purchase", "s1", "Ok")
    /\ last.amount > 0
    /\ last.caller # wallets["s1"].authority
    /\ wallets["s1"].last_activity > wallets["s1"].created_at

====
